---- MODULE Spec2Model ----
(***************************************************************************)
(* Model of the encoding / binary classification engine of                 *)
(* directory-serialization (src/detector/detector.go).                     *)
(*                                                                         *)
(* A byte is a number in 0..255, a buffer is a sequence of bytes.  Go      *)
(* indexes from 0, TLA+ sequences from 1: Go's data[i] is data[i+1] here.  *)
(* The two entry points, EncodingDetector and IsText, are pure functions;  *)
(* they are modelled as operators, and the state machine is a caller that  *)
(* holds one buffer and calls each entry point once.                       *)
(***************************************************************************)
EXTENDS Integers, Sequences, FiniteSets

(***************************************************************************)
(* Bounds of the model.                                                    *)
(***************************************************************************)
\* longest buffer over the general byte alphabet
MaxLen == 3
\* most 2-byte Cyrillic letters in a buffer of the Cyrillic family
MaxLetters == 5
\* longest tail after a (near-)BOM prefix
MaxTail == 1
\* how far past a window limit (8000, 16384) the long buffers reach
Slack == 2

(***************************************************************************)
(* Enumerations (detector.go:15-46).                                       *)
(***************************************************************************)
EncodingChoiceSource ==
    {"DefaultEncoding", "AutoDetectedEncoding", "BOM", "EncodingFromXMLHeader",
     "EncodingFromMetaTag", "UserChosenEncoding"}

AutoDetectScript ==
    {"None", "Arabic", "Baltic", "CentralEuropean", "ChineseSimplified",
     "ChineseTraditional", "Cyrillic", "Greek", "Hebrew", "Japanese", "Korean",
     "Turkish", "WesternEuropean", "Unicode"}

\* the answers of the Japanese sub-engine guessJP (guess_ja.go is not part of
\* the sources at hand: four codes, anything else means "unknown")
JapaneseCodes == {"JIS", "EUC", "SJIS", "UTF8", "Unknown"}

\* maxBuffer: the heuristics' analysis window
maxBuffer == 16 * 1024

\* the window of the null-byte check
binaryCheckLen == 8000

\* the Cyrillic scanner's window
cyrillicLimit == 1000

Min(a, b) == IF a < b THEN a ELSE b

HasPrefix(data, p) ==
    /\ Len(data) >= Len(p)
    /\ \A i \in 1..Len(p) : data[i] = p[i]

\* isBinary with the window cut one byte short (data[:checkLen-1])
isBinary_shortWindow(data) ==
    LET checkLen == Min(Len(data), binaryCheckLen)
    IN  \E i \in 1..(checkLen - 1) : data[i] = 0

(***************************************************************************)
(* isBinary (detector.go:60-69): a 0x00 among the first 8000 bytes.        *)
(***************************************************************************)
isBinary(data) ==
    LET checkLen == Min(Len(data), binaryCheckLen)
    IN  \E i \in 1..checkLen : data[i] = 0

(***************************************************************************)
(* utf8.Valid of Go's standard library, as called by errorsIfUtf8          *)
(* (detector.go:73-75).  The decoder walks the buffer from the left; a     *)
(* buffer is accepted exactly when every byte is an ASCII byte, a lead     *)
(* byte followed by the continuation bytes its length and range table      *)
(* demand, or a continuation byte that such a lead byte consumes.          *)
(***************************************************************************)
IsCont(b) == b >= \h80 /\ b <= \hBF

\* length of the sequence a first byte announces; 0: not a legal first byte
Utf8SeqLen(b) ==
    IF b < \h80 THEN 1
    ELSE IF b >= \hC2 /\ b <= \hDF THEN 2
    ELSE IF b >= \hE0 /\ b <= \hEF THEN 3
    ELSE IF b >= \hF0 /\ b <= \hF4 THEN 4
    ELSE 0

\* accept range of the second byte (E0, ED, F0, F4 narrow it)
Utf8SecondLo(b) == IF b = \hE0 THEN \hA0 ELSE IF b = \hF0 THEN \h90 ELSE \h80
Utf8SecondHi(b) == IF b = \hED THEN \h9F ELSE IF b = \hF4 THEN \h8F ELSE \hBF

Utf8StartOk(data, size, i) ==
    LET b == data[i]
        n == Utf8SeqLen(b)
    IN  /\ n >= 1
        /\ i + n - 1 <= size
        /\ n >= 2 => (data[i + 1] >= Utf8SecondLo(b) /\ data[i + 1] <= Utf8SecondHi(b))
        /\ n >= 3 => IsCont(data[i + 2])
        /\ n >= 4 => IsCont(data[i + 3])

Utf8Consumed(data, i) ==
    \E j \in 1..3 :
        /\ i - j >= 1
        /\ Utf8SeqLen(data[i - j]) > j
        /\ \A k \in 1..(j - 1) : IsCont(data[i - k])

Utf8Valid(data) ==
    LET size == Len(data)
    IN  \A i \in 1..size :
           \/ data[i] < \h80
           \/ IF IsCont(data[i]) THEN Utf8Consumed(data, i) ELSE Utf8StartOk(data, size, i)

\* errorsIfUtf8 without the negation
errorsIfUtf8_notNegated(data) == Utf8Valid(data)

errorsIfUtf8(data) == ~Utf8Valid(data)

\* checkBOM without the little-endian UTF-16 mark
checkBOM_noUTF16LE(data) ==
    IF HasPrefix(data, <<\hEF, \hBB, \hBF>>) THEN "UTF-8-BOM"
    ELSE IF HasPrefix(data, <<\hFE, \hFF>>) THEN "UTF-16BE"
    ELSE ""

(***************************************************************************)
(* checkBOM (detector.go:179-191): "" stands for the pair ("", false).     *)
(***************************************************************************)
checkBOM(data) ==
    IF HasPrefix(data, <<\hEF, \hBB, \hBF>>) THEN "UTF-8-BOM"
    ELSE IF HasPrefix(data, <<\hFE, \hFF>>) THEN "UTF-16BE"
    ELSE IF HasPrefix(data, <<\hFF, \hFE>>) THEN "UTF-16LE"
    ELSE ""


(***************************************************************************)
(* The scanners below return at the first byte that decides.  First(S) is  *)
(* the position of that byte among the positions S that can decide.        *)
(***************************************************************************)
First(S) == CHOOSE i \in S : \A j \in S : i <= j

(***************************************************************************)
(* automaticDetectionForWesternEuropean (detector.go:219-240).  The loop   *)
(* runs over Go's i in 0..size-2, here 1..size-1.                          *)
(***************************************************************************)
automaticDetectionForWesternEuropean(ptr) ==
    LET size == Len(ptr)
        nonANSI == {i \in 1..(size - 1) : ptr[i] > \h79}
        Utf8Pair(i) == ptr[i] > \hC1 /\ ptr[i] < \hF0 /\ ptr[i + 1] > \h7F /\ ptr[i + 1] < \hC0
        Cp1252(i) == ptr[i] >= \h78 /\ ptr[i] <= \h9F
        returning == {i \in nonANSI : Utf8Pair(i) \/ Cp1252(i)}
    IN  IF size = 0 THEN ""
        ELSE IF returning # {}
             THEN (IF Utf8Pair(First(returning)) THEN "UTF-8" ELSE "cp1252")
        ELSE IF Cardinality(nonANSI) > 0 THEN "iso-8859-15"
        ELSE ""

(***************************************************************************)
(* automaticDetectionForCyrillic (detector.go:242-300).  The loop runs     *)
(* over Go's i in 1..limit-1, here 2..limit; the counters are the numbers  *)
(* of positions at which the loop increments them.                         *)
(***************************************************************************)
\* the counters when the loop ends (detector.go:244-278)
cyrillicCounters(ptr) ==
    LET size == Len(ptr)
        limit == IF 0 + 0 < cyrillicLimit THEN Min(size, cyrillicLimit) ELSE size
        I == 2..limit
    IN  [cp1251SmallRange |-> Cardinality({i \in I : ptr[i] > \hDF}),
         cp1251Score |-> Cardinality({i \in I : ptr[i] > \hDF /\ ptr[i] = \hEE}),
         cp1251St |-> Cardinality({i \in I : ptr[i] > \hDF /\ ptr[i] # \hEE
                                            /\ ptr[i] = \hF2 /\ ptr[i - 1] = \hF1}),
         koiSmallRange |-> Cardinality({i \in I : ptr[i] <= \hDF /\ ptr[i] > \hBF}),
         utf8Mark |-> Cardinality({i \in I : ptr[i] <= \hDF /\ ptr[i] > \hBF
                                            /\ (ptr[i] = \hD0 \/ ptr[i] = \hD1)}),
         koiScore |-> Cardinality({i \in I : ptr[i] <= \hDF /\ ptr[i] > \hBF
                                            /\ ptr[i] = \hCF}),
         koiSt |-> Cardinality({i \in I : ptr[i] <= \hDF /\ ptr[i] > \hBF /\ ptr[i] # \hCF
                                         /\ ptr[i] = \hD4 /\ ptr[i - 1] = \hD3}),
         ibm866SmallRange |-> Cardinality({i \in I : ptr[i] <= \hBF /\ ptr[i] > \h9F
                                                    /\ ptr[i] < \hB0})]

\* the decision with UTF-8 declared only when the markers outnumber all
\* counted bytes (the factor 3 dropped)
cyrillicVerdict_noFactor(c) ==
    LET total == c.cp1251SmallRange + c.koiSmallRange + c.ibm866SmallRange
        koiScore == IF c.cp1251St = 0 /\ c.koiSt > 1 THEN c.koiScore + 10 ELSE c.koiScore
        cp1251Score == IF ~(c.cp1251St = 0 /\ c.koiSt > 1) /\ c.koiSt = 0 /\ c.cp1251St > 1
                       THEN c.cp1251Score + 10 ELSE c.cp1251Score
    IN  IF total < 8 THEN ""
        ELSE IF c.utf8Mark > total THEN "UTF-8"
        ELSE IF c.ibm866SmallRange > c.cp1251SmallRange + c.koiSmallRange THEN "ibm866"
        ELSE IF cp1251Score > koiScore THEN "cp1251"
        ELSE "koi8-u"

\* the decision without the minimum of 8 counted bytes
cyrillicVerdict_noMinimum(c) ==
    LET total == c.cp1251SmallRange + c.koiSmallRange + c.ibm866SmallRange
        koiScore == IF c.cp1251St = 0 /\ c.koiSt > 1 THEN c.koiScore + 10 ELSE c.koiScore
        cp1251Score == IF ~(c.cp1251St = 0 /\ c.koiSt > 1) /\ c.koiSt = 0 /\ c.cp1251St > 1
                       THEN c.cp1251Score + 10 ELSE c.cp1251Score
    IN  IF 3 * c.utf8Mark > total THEN "UTF-8"
        ELSE IF c.ibm866SmallRange > c.cp1251SmallRange + c.koiSmallRange THEN "ibm866"
        ELSE IF cp1251Score > koiScore THEN "cp1251"
        ELSE "koi8-u"

\* the decision on the counters (detector.go:280-299)
cyrillicVerdict(c) ==
    LET total == c.cp1251SmallRange + c.koiSmallRange + c.ibm866SmallRange
        koiScore == IF c.cp1251St = 0 /\ c.koiSt > 1 THEN c.koiScore + 10 ELSE c.koiScore
        cp1251Score == IF ~(c.cp1251St = 0 /\ c.koiSt > 1) /\ c.koiSt = 0 /\ c.cp1251St > 1
                       THEN c.cp1251Score + 10 ELSE c.cp1251Score
    IN  IF total < 8 THEN ""
        ELSE IF 3 * c.utf8Mark > total THEN "UTF-8"
        ELSE IF c.ibm866SmallRange > c.cp1251SmallRange + c.koiSmallRange THEN "ibm866"
        ELSE IF cp1251Score > koiScore THEN "cp1251"
        ELSE "koi8-u"

automaticDetectionForCyrillic(ptr) == cyrillicVerdict(cyrillicCounters(ptr))

(***************************************************************************)
(* guessJP of the Japanese sub-engine: a function of the sample whose      *)
(* source (guess_ja.go) is not at hand.  jaCode is its answer for the      *)
(* buffer the caller holds, any of the five codes.                         *)
(***************************************************************************)
VARIABLE jaCode

guessJP(ptr) == jaCode

\* automaticDetectionForJapanese (detector.go:302-319)
automaticDetectionForJapanese(ptr) ==
    LET code == guessJP(ptr)
    IN  IF code = "JIS" THEN "jis7"
        ELSE IF code = "EUC" THEN "eucjp"
        ELSE IF code = "SJIS" THEN "sjis"
        ELSE IF code = "UTF8" THEN "utf8"
        ELSE ""

(***************************************************************************)
(* The six presence tests (detector.go:325-403).                           *)
(***************************************************************************)
automaticDetectionForArabic(ptr) ==
    IF \E i \in 1..Len(ptr) :
          LET p == ptr[i]
          IN  \/ (p >= \h80 /\ p <= \h9F)
              \/ p = \hA1 \/ p = \hA2 \/ p = \hA3
              \/ (p >= \hA5 /\ p <= \hAB)
              \/ (p >= \hAE /\ p <= \hBA)
              \/ p = \hBC \/ p = \hBD \/ p = \hBE \/ p = \hC0
              \/ (p >= \hDB /\ p <= \hDF)
              \/ p >= \hF3
    THEN "cp1256"
    ELSE "iso-8859-6"

automaticDetectionForBaltic(ptr) ==
    LET Cp(i) == ptr[i] >= \h80 /\ ptr[i] <= \h9E
        Iso(i) == ptr[i] = \hA1 \/ ptr[i] = \hA5
        returning == {i \in 1..Len(ptr) : Cp(i) \/ Iso(i)}
    IN  IF returning # {} /\ Cp(First(returning)) THEN "cp1257" ELSE "iso-8859-13"

\* The returns guarded by i+1 > len(ptr) never execute (i < len(ptr)), so the
\* loop ends at the first ibm852 byte or runs out with charset set: to cp1250
\* by any other 0x80-0x9F byte, else to iso-8859-2 by a listed byte.
automaticDetectionForCentralEuropean(ptr) ==
    LET I == 1..Len(ptr)
        C1(i) == ptr[i] >= \h80 /\ ptr[i] <= \h9F
        Ibm(i) == ptr[i] = \h81 \/ ptr[i] = \h83 \/ ptr[i] = \h90 \/ ptr[i] = \h98
        Iso(i) == ptr[i] \in {\hA5, \hAE, \hBE, \hC3, \hD0, \hE3, \hF0}
        charset == IF \E i \in I : C1(i) THEN "cp1250"
                   ELSE IF \E i \in I : Iso(i) THEN "iso-8859-2"
                   ELSE ""
    IN  IF \E i \in I : C1(i) /\ Ibm(i) THEN "ibm852"
        ELSE IF charset = "" THEN "iso-8859-3"
        ELSE charset

automaticDetectionForGreek(ptr) ==
    IF \E i \in 1..Len(ptr) :
          LET p == ptr[i]
          IN  \/ p = \h80 \/ (p >= \h82 /\ p <= \h87) \/ p = \h89 \/ p = \h8B
              \/ (p >= \h91 /\ p <= \h97) \/ p = \h99 \/ p = \h9B
              \/ p = \hA4 \/ p = \hA5 \/ p = \hAE
    THEN "cp1253"
    ELSE "iso-8859-7"

automaticDetectionForHebrew(ptr) ==
    LET Cp(i) == LET p == ptr[i]
                 IN  \/ p = \h80 \/ (p >= \h82 /\ p <= \h89) \/ p = \h8B
                     \/ (p >= \h91 /\ p <= \h99) \/ p = \h9B \/ p = \hA1
                     \/ (p >= \hBF /\ p <= \hC9) \/ (p >= \hCB /\ p <= \hD8)
        Iso(i) == ptr[i] = \hDF
        returning == {i \in 1..Len(ptr) : Cp(i) \/ Iso(i)}
    IN  IF returning # {} /\ Cp(First(returning)) THEN "cp1255" ELSE "iso-8859-8-i"

automaticDetectionForTurkish(ptr) ==
    IF \E i \in 1..Len(ptr) :
          LET p == ptr[i]
          IN  \/ p = \h80 \/ (p >= \h82 /\ p <= \h8C) \/ (p >= \h91 /\ p <= \h9C) \/ p = \h9F
    THEN "cp1254"
    ELSE "iso-8859-9"

\* runHeuristics with Korean sent to the Japanese scanner
runHeuristics_koreanAsJapanese(sample, script) ==
    CASE script = "Arabic" -> automaticDetectionForArabic(sample)
      [] script = "Baltic" -> automaticDetectionForBaltic(sample)
      [] script = "CentralEuropean" -> automaticDetectionForCentralEuropean(sample)
      [] script = "Cyrillic" -> automaticDetectionForCyrillic(sample)
      [] script = "Greek" -> automaticDetectionForGreek(sample)
      [] script = "Hebrew" -> automaticDetectionForHebrew(sample)
      [] script = "Japanese" \/ script = "Korean" -> automaticDetectionForJapanese(sample)
      [] script = "Turkish" -> automaticDetectionForTurkish(sample)
      [] script = "WesternEuropean" -> automaticDetectionForWesternEuropean(sample)
      [] OTHER -> ""

\* runHeuristics (detector.go:193-215)
runHeuristics(sample, script) ==
    CASE script = "Arabic" -> automaticDetectionForArabic(sample)
      [] script = "Baltic" -> automaticDetectionForBaltic(sample)
      [] script = "CentralEuropean" -> automaticDetectionForCentralEuropean(sample)
      [] script = "Cyrillic" -> automaticDetectionForCyrillic(sample)
      [] script = "Greek" -> automaticDetectionForGreek(sample)
      [] script = "Hebrew" -> automaticDetectionForHebrew(sample)
      [] script = "Japanese" -> automaticDetectionForJapanese(sample)
      [] script = "Turkish" -> automaticDetectionForTurkish(sample)
      [] script = "WesternEuropean" -> automaticDetectionForWesternEuropean(sample)
      [] OTHER -> ""


(***************************************************************************)
(* EncodingDetector (detector.go:79-165).  EncodingDetectorRun gives the   *)
(* returned DetectorResult together with the checks the call went through, *)
(* in the order it ran them.                                               *)
(***************************************************************************)
\* the result constructed without IsBinary: true
newResult_notBinary ==
    [Encoding |-> "binary", Source |-> "DefaultEncoding", Script |-> "None",
     IsBinary |-> FALSE]

\* the result as constructed at detector.go:80-84 (Script is Go's zero value)
newResult ==
    [Encoding |-> "binary", Source |-> "DefaultEncoding", Script |-> "None",
     IsBinary |-> TRUE]

\* the sample without the cap: the whole buffer
sampleOf_uncapped(data) == data

\* detector.go:113-117
sampleOf(data) ==
    LET checkLen == IF Len(data) > maxBuffer THEN maxBuffer ELSE Len(data)
    IN  SubSeq(data, 1, checkLen)

\* detector.go:124-128, 135-138, 143-146, 151-154
detectedAs(res, enc, script) ==
    [res EXCEPT !.Encoding = enc, !.Source = "AutoDetectedEncoding", !.Script = script]

EncodingDetectorRun(data, scriptHint) ==
    LET bom == checkBOM(data)
        text == [newResult EXCEPT !.IsBinary = FALSE, !.Encoding = "us-ascii"]
        sample == sampleOf(data)
        hinted == runHeuristics(sample, scriptHint)
        we == automaticDetectionForWesternEuropean(sample)
        cyr == automaticDetectionForCyrillic(sample)
        ja == automaticDetectionForJapanese(sample)
        pre == <<"checkBOM", "isBinary">>
              \o (IF scriptHint # "None" THEN <<"runHeuristics">> ELSE <<>>)
    IN  IF Len(data) = 0
        THEN [result |-> [newResult EXCEPT !.Encoding = "us-ascii", !.IsBinary = FALSE],
              stages |-> <<>>]
        ELSE IF bom # ""
        THEN [result |-> [newResult EXCEPT !.Encoding = bom, !.Source = "BOM",
                                           !.IsBinary = FALSE],
              stages |-> <<"checkBOM">>]
        ELSE IF isBinary(data)
        THEN [result |-> newResult, stages |-> <<"checkBOM", "isBinary">>]
        ELSE IF scriptHint # "None" /\ hinted # ""
        THEN [result |-> detectedAs(text, hinted, scriptHint), stages |-> pre]
        ELSE IF we # ""
        THEN [result |-> detectedAs(text, we, "WesternEuropean"),
              stages |-> pre \o <<"WesternEuropean">>]
        ELSE IF cyr # ""
        THEN [result |-> detectedAs(text, cyr, "Cyrillic"),
              stages |-> pre \o <<"WesternEuropean", "Cyrillic">>]
        ELSE IF ja # ""
        THEN [result |-> detectedAs(text, ja, "Japanese"),
              stages |-> pre \o <<"WesternEuropean", "Cyrillic", "Japanese">>]
        ELSE [result |-> IF ~errorsIfUtf8(data)
                         THEN [text EXCEPT !.Encoding = "UTF-8",
                                           !.Source = "AutoDetectedEncoding"]
                         ELSE text,
              stages |-> pre \o <<"WesternEuropean", "Cyrillic", "Japanese",
                                  "errorsIfUtf8">>]

EncodingDetector(data, scriptHint) == EncodingDetectorRun(data, scriptHint).result

\* IsText with the empty buffer taken for binary
IsText_emptyIsBinary(data) ==
    IF Len(data) = 0 THEN FALSE ELSE ~isBinary(data)

\* IsText as the wrapper over EncodingDetector its doc comment speaks of
IsText_wrapper(data) == ~EncodingDetector(data, "None").IsBinary

\* IsText (detector.go:170-177)
IsText(data) ==
    IF Len(data) = 0 THEN TRUE ELSE ~isBinary(data)

(***************************************************************************)
(* The buffers the caller may hold.                                        *)
(***************************************************************************)
SeqsUpTo(A, n) == UNION {[1..k -> A] : k \in 0..n}

\* NUL, 'A', 'z', a C1 / continuation byte, a 2-byte lead, a 3-byte lead, 0xFF
Alphabet == {\h00, \h41, \h7A, \h90, \hD0, \hE9, \hFF}

GeneralBuffers == SeqsUpTo(Alphabet, MaxLen)

\* the three byte order marks and prefixes that fall just short of one
BOMPrefixes ==
    {<<\hEF, \hBB, \hBF>>, <<\hFE, \hFF>>, <<\hFF, \hFE>>,
     <<\hEF, \hBB>>, <<\hEF, \hBB, \hBE>>, <<\hFE>>, <<\hFE, \hFE>>}

BOMBuffers == {p \o t : p \in BOMPrefixes, t \in SeqsUpTo({\h00, \h41, \hBF}, MaxTail)}

\* Cyrillic letters as 2-byte UTF-8: U+0425 (D0 A5) and U+0440 (D1 80)
Letters == {<<\hD0, \hA5>>, <<\hD1, \h80>>}

LettersBuffer(f) == [i \in 1..(2 * Len(f)) |-> f[(i + 1) \div 2][2 - (i % 2)]]

CyrillicBuffers == {LettersBuffer(f) : f \in UNION {[1..n -> Letters] : n \in 1..MaxLetters}}

\* single-byte Cyrillic text: 'A', then k bytes b1 and RunLen - k bytes b2
RunLen == 9

Run(b, n) == [i \in 1..n |-> b]

RunBuffers ==
    {<<\h41>> \o Run(b1, k) \o Run(b2, RunLen - k) :
        b1 \in {\hA5, \hCF, \hEE}, b2 \in {\hA5, \hCF, \hEE}, k \in 0..RunLen}

\* buffers of 'A's that end in a tail, as long as a window or up to Slack bytes
\* longer: a Cyrillic run across the Cyrillic scanner's window, a NUL across
\* the null-byte window, two high bytes across the heuristics' window
LongBuffer(n, t) == Run(\h41, n - Len(t)) \o t

LongBuffers ==
    {LongBuffer(cyrillicLimit + d, Run(\hCF, 8)) : d \in 0..Slack}
    \cup {LongBuffer(binaryCheckLen + d, <<\h00>>) : d \in 0..Slack}
    \cup {LongBuffer(maxBuffer + d, <<\hE9, \hE9>>) : d \in 0..Slack}

Buffers == GeneralBuffers \cup BOMBuffers \cup CyrillicBuffers \cup RunBuffers \cup LongBuffers

(***************************************************************************)
(* The caller: holds a buffer, and calls EncodingDetector (with any script *)
(* hint) and IsText on it, once each, in either order.                     *)
(***************************************************************************)
VARIABLES data, scriptHint, result, stages, detected, isText, textChecked

vars == <<data, jaCode, scriptHint, result, stages, detected, isText, textChecked>>

Init ==
    /\ data \in Buffers
    /\ jaCode \in JapaneseCodes
    /\ scriptHint = "None"
    /\ result = newResult
    /\ stages = <<>>
    /\ detected = FALSE
    /\ isText = FALSE
    /\ textChecked = FALSE

CallEncodingDetector ==
    /\ ~detected
    /\ \E hint \in AutoDetectScript :
          LET run == EncodingDetectorRun(data, hint)
          IN  /\ scriptHint' = hint
              /\ result' = run.result
              /\ stages' = run.stages
    /\ detected' = TRUE
    /\ UNCHANGED <<data, jaCode, isText, textChecked>>

\* main.go:88-93: walkDir hands the bytes it read to IsText
CallIsText ==
    /\ ~textChecked
    /\ isText' = IsText(data)
    /\ textChecked' = TRUE
    /\ UNCHANGED <<data, jaCode, scriptHint, result, stages, detected>>

Next == CallEncodingDetector \/ CallIsText

Spec == Init /\ [][Next]_vars


(***************************************************************************)
(* What the properties below say about the buffer the caller holds.        *)
(***************************************************************************)
DataStartsWith(p) == Len(data) >= Len(p) /\ SubSeq(data, 1, Len(p)) = p

HasUTF8BOM == DataStartsWith(<<\hEF, \hBB, \hBF>>)
HasUTF16BEBOM == DataStartsWith(<<\hFE, \hFF>>)
HasUTF16LEBOM == DataStartsWith(<<\hFF, \hFE>>)
HasBOM == HasUTF8BOM \/ HasUTF16BEBOM \/ HasUTF16LEBOM

\* a 0x00 at a Go index below 8000
NullBelow8000 == \E i \in 1..Min(Len(data), 8000) : data[i] = \h00

BOMResult(name) ==
    [Encoding |-> name, Source |-> "BOM", Script |-> "None", IsBinary |-> FALSE]

(***************************************************************************)
(* C1.  A non-empty buffer without a BOM prefix that has a 0x00 at an      *)
(* index below 8000 classifies as binary, Encoding "binary", whatever the  *)
(* script hint.                                                            *)
(***************************************************************************)
C1_NullWithoutBOMIsBinary ==
    (detected /\ Len(data) > 0 /\ ~HasBOM /\ NullBelow8000)
        => (result.IsBinary = TRUE /\ result.Encoding = "binary")

\* the 0x00 is the last byte the window covers, and a hint was given
C1_Witness ==
    /\ detected /\ scriptHint = "Arabic"
    /\ Len(data) = 8000 /\ data[8000] = \h00 /\ ~HasBOM
    /\ result.IsBinary /\ result.Encoding = "binary"

(***************************************************************************)
(* C2.  A buffer that starts with EF BB BF, FE FF or FF FE classifies as   *)
(* text from the BOM alone: Encoding UTF-8-BOM, UTF-16BE or UTF-16LE,      *)
(* Source BOM, Script None, whatever follows and whatever the hint; the    *)
(* binary check does not run.                                              *)
(***************************************************************************)
C2_BOMDecidesFirst ==
    detected =>
        /\ HasUTF8BOM => result = BOMResult("UTF-8-BOM")
        /\ HasUTF16BEBOM => result = BOMResult("UTF-16BE")
        /\ HasUTF16LEBOM => result = BOMResult("UTF-16LE")
        /\ HasBOM => stages = <<"checkBOM">>

\* a UTF-16LE mark followed by a 0x00, classified under a hint
C2_Witness ==
    /\ detected /\ scriptHint = "Cyrillic"
    /\ HasUTF16LEBOM /\ NullBelow8000
    /\ result.Encoding = "UTF-16LE" /\ ~result.IsBinary

(***************************************************************************)
(* C3.  On the empty buffer IsText is true, and EncodingDetector returns   *)
(* IsBinary false and Encoding us-ascii for every hint, having run none of *)
(* its checks.                                                             *)
(***************************************************************************)
C3_EmptyBufferIsText ==
    Len(data) = 0 =>
        /\ textChecked => isText = TRUE
        /\ detected => /\ result.IsBinary = FALSE
                       /\ result.Encoding = "us-ascii"
                       /\ stages = <<>>

\* Arabic: the scanner that would name an encoding even for an empty sample
C3_Witness ==
    /\ Len(data) = 0 /\ textChecked /\ detected
    /\ scriptHint = "Arabic"
    /\ isText /\ result.Encoding = "us-ascii"

(***************************************************************************)
(* C4.  Every result is either binary with Encoding "binary", or not       *)
(* binary with a non-empty Encoding other than "binary".                   *)
(***************************************************************************)
C4_BinaryIffEncodingBinary ==
    detected =>
        \/ (result.IsBinary = TRUE /\ result.Encoding = "binary")
        \/ (result.IsBinary = FALSE /\ result.Encoding # "" /\ result.Encoding # "binary")

C4_Witness ==
    /\ detected /\ Len(data) > 0 /\ ~HasBOM
    /\ result.IsBinary /\ result.Encoding = "binary"

PlainASCII == Len(data) > 0 /\ \A i \in 1..Len(data) : data[i] <= \h79 /\ data[i] # \h00

C6_Original ==
    (detected /\ scriptHint = "None" /\ PlainASCII /\ jaCode = "Unknown")
        => /\ result.Encoding = "us-ascii"
           /\ result.Source = "DefaultEncoding"
           /\ result.IsBinary = FALSE

(***************************************************************************)
(* C6, amended.  Such a buffer is never left at us-ascii: it is not        *)
(* binary and its Source is AutoDetectedEncoding.  When the Japanese       *)
(* scanner is inconclusive the final check finds it valid UTF-8 and the    *)
(* result is Encoding UTF-8, Script None; otherwise the result is the      *)
(* Japanese scanner's name with Script Japanese.                           *)
(***************************************************************************)
C6_PlainASCIIIsUTF8 ==
    (detected /\ scriptHint = "None" /\ PlainASCII)
        => /\ result.IsBinary = FALSE
           /\ result.Source = "AutoDetectedEncoding"
           /\ jaCode = "Unknown" => (result.Encoding = "UTF-8" /\ result.Script = "None")
           /\ jaCode # "Unknown" => /\ result.Encoding \in {"jis7", "eucjp", "sjis", "utf8"}
                                    /\ result.Script = "Japanese"

C6_Witness ==
    /\ detected /\ scriptHint = "None" /\ PlainASCII
    /\ Len(data) >= 2 /\ jaCode = "Unknown"
    /\ result.Encoding = "UTF-8" /\ result.Source = "AutoDetectedEncoding"

(***************************************************************************)
(* C7.  As claimed: a buffer made only of 2-byte UTF-8 Cyrillic letters    *)
(* (lead byte D0 or D1) with at least 8 high-bit bytes makes               *)
(* automaticDetectionForCyrillic return UTF-8, and EncodingDetector (with  *)
(* the Cyrillic hint or none) report UTF-8 with Script Cyrillic.           *)
(***************************************************************************)
OnlyCyrillicLetters ==
    /\ Len(data) > 0
    /\ Len(data) % 2 = 0
    /\ \A i \in 1..Len(data) :
          IF i % 2 = 1 THEN data[i] \in {\hD0, \hD1}
                       ELSE data[i] >= \h80 /\ data[i] <= \hBF

HighBitBytes == Cardinality({i \in 1..Len(data) : data[i] >= \h80})

\* the bytes the Cyrillic scanner counts: from the second byte on, within its
\* first 1000 bytes, above 0xBF or in 0xA0..0xAF
CyrillicCounted ==
    Cardinality({i \in 2..Min(Len(data), 1000) :
                    data[i] > \hBF \/ (data[i] >= \hA0 /\ data[i] <= \hAF)})

UTF8As(script) ==
    [Encoding |-> "UTF-8", Source |-> "AutoDetectedEncoding", Script |-> script,
     IsBinary |-> FALSE]

C7_Original ==
    (detected /\ scriptHint \in {"None", "Cyrillic"} /\ OnlyCyrillicLetters /\ HighBitBytes >= 8)
        => /\ automaticDetectionForCyrillic(sampleOf(data)) = "UTF-8"
           /\ result.Encoding = "UTF-8"
           /\ result.Script = "Cyrillic"

(***************************************************************************)
(* C7, amended.  The threshold is on the bytes the Cyrillic scanner        *)
(* counts, not on all high-bit bytes: when it counts at least 8 in such a  *)
(* buffer, automaticDetectionForCyrillic returns UTF-8.  EncodingDetector  *)
(* then reports UTF-8 with Script Cyrillic when called with the Cyrillic   *)
(* hint; called with no hint it reports UTF-8 with Script WesternEuropean, *)
(* the Western European scanner deciding first.                            *)
(***************************************************************************)
C7_CyrillicUTF8 ==
    (detected /\ OnlyCyrillicLetters /\ CyrillicCounted >= 8)
        => /\ automaticDetectionForCyrillic(sampleOf(data)) = "UTF-8"
           /\ scriptHint = "Cyrillic" => result = UTF8As("Cyrillic")
           /\ scriptHint = "None" => result = UTF8As("WesternEuropean")

C7_Witness ==
    /\ detected /\ scriptHint = "Cyrillic"
    /\ OnlyCyrillicLetters /\ CyrillicCounted >= 8
    /\ result = UTF8As("Cyrillic")

(***************************************************************************)
(* C8.  As claimed: for a non-empty, BOM-free, null-free buffer with fewer *)
(* than 8 high-bit bytes the Cyrillic scanner is inconclusive, and         *)
(* EncodingDetector with the Cyrillic hint or none ends in the UTF-8       *)
(* check: UTF-8 if the buffer is valid UTF-8, else us-ascii with Source    *)
(* DefaultEncoding.  Stated for the case that favours it, the Japanese     *)
(* scanner being inconclusive, and for buffers every scanner sees whole.   *)
(***************************************************************************)
NullFree == \A i \in 1..Len(data) : data[i] # \h00

FewHighBitBytes ==
    /\ detected /\ scriptHint \in {"None", "Cyrillic"}
    /\ Len(data) > 0 /\ ~HasBOM /\ NullFree
    /\ HighBitBytes < 8

UTF8CheckOutcome ==
    IF Utf8Valid(data)
    THEN result.Encoding = "UTF-8" /\ result.Source = "AutoDetectedEncoding"
    ELSE result.Encoding = "us-ascii" /\ result.Source = "DefaultEncoding"

Detected(enc, script) ==
    [Encoding |-> enc, Source |-> "AutoDetectedEncoding", Script |-> script,
     IsBinary |-> FALSE]

InStages(stage) == \E i \in 1..Len(stages) : stages[i] = stage

C8_Original ==
    (FewHighBitBytes /\ jaCode = "Unknown" /\ Len(data) < cyrillicLimit)
        => /\ automaticDetectionForCyrillic(sampleOf(data)) = ""
           /\ UTF8CheckOutcome

(***************************************************************************)
(* C8, amended.  For such a buffer the Cyrillic scanner is inconclusive;   *)
(* EncodingDetector with the Cyrillic hint or none reaches the UTF-8       *)
(* check only if the Western European and the Japanese scanner are         *)
(* inconclusive too, and then the result is as claimed.  Otherwise the     *)
(* first of those two that answers decides, with Source                    *)
(* AutoDetectedEncoding, and the UTF-8 check does not run.                 *)
(***************************************************************************)
C8_FewHighBitBytes ==
    FewHighBitBytes
        => LET we == automaticDetectionForWesternEuropean(sampleOf(data))
               ja == automaticDetectionForJapanese(sampleOf(data))
           IN  /\ automaticDetectionForCyrillic(sampleOf(data)) = ""
               /\ (we = "" /\ ja = "")
                     => (InStages("errorsIfUtf8") /\ UTF8CheckOutcome /\ result.Script = "None")
               /\ we # ""
                     => /\ ~InStages("errorsIfUtf8")
                        /\ result = Detected(we, "WesternEuropean")
               /\ (we = "" /\ ja # "")
                     => /\ ~InStages("errorsIfUtf8")
                        /\ result = Detected(ja, "Japanese")

\* a high-bit byte the Western European scanner does not look at (the last)
C8_Witness ==
    /\ FewHighBitBytes /\ scriptHint = "Cyrillic"
    /\ HighBitBytes > 0
    /\ InStages("errorsIfUtf8")
    /\ result.Encoding = "us-ascii" /\ result.Source = "DefaultEncoding"

(***************************************************************************)
(* C9.  A hint without a scanner (ChineseSimplified, ChineseTraditional,   *)
(* Korean, Unicode) is no error: runHeuristics answers it with the empty   *)
(* result, and EncodingDetector returns what it returns for the hint None. *)
(***************************************************************************)
NoScanner == {"ChineseSimplified", "ChineseTraditional", "Korean", "Unicode"}

C9_HintWithoutScanner ==
    (detected /\ scriptHint \in NoScanner)
        => /\ runHeuristics(sampleOf(data), scriptHint) = ""
           /\ result = EncodingDetector(data, "None")

C9_Witness ==
    /\ detected /\ scriptHint = "Korean"
    /\ jaCode = "SJIS"
    /\ result.Script = "Japanese" /\ result.Encoding = "sjis"

(***************************************************************************)
(* C10.  For a non-empty, BOM-free buffer with no 0x00 in its first 8000   *)
(* bytes the answer is that of the first conclusive scanner in the order   *)
(* hinted (Script = hint), Western European, Cyrillic, Japanese, each run  *)
(* on the first 16 KiB and giving Source AutoDetectedEncoding; the         *)
(* scanners after it do not run.  When none is conclusive the whole buffer *)
(* is validated as UTF-8: UTF-8 with Source AutoDetectedEncoding if valid, *)
(* us-ascii with Source DefaultEncoding if not.                            *)
(***************************************************************************)
First16KiB == SubSeq(data, 1, Min(Len(data), 16384))

C10_FirstConclusiveStage ==
    (detected /\ Len(data) > 0 /\ ~HasBOM /\ ~NullBelow8000)
        => LET hinted == IF scriptHint = "None" THEN ""
                         ELSE runHeuristics(First16KiB, scriptHint)
               we == automaticDetectionForWesternEuropean(First16KiB)
               cyr == automaticDetectionForCyrillic(First16KiB)
               ja == automaticDetectionForJapanese(First16KiB)
               pre == <<"checkBOM", "isBinary">>
                      \o (IF scriptHint = "None" THEN <<>> ELSE <<"runHeuristics">>)
           IN  IF hinted # ""
               THEN result = Detected(hinted, scriptHint) /\ stages = pre
               ELSE IF we # ""
               THEN /\ result = Detected(we, "WesternEuropean")
                    /\ stages = pre \o <<"WesternEuropean">>
               ELSE IF cyr # ""
               THEN /\ result = Detected(cyr, "Cyrillic")
                    /\ stages = pre \o <<"WesternEuropean", "Cyrillic">>
               ELSE IF ja # ""
               THEN /\ result = Detected(ja, "Japanese")
                    /\ stages = pre \o <<"WesternEuropean", "Cyrillic", "Japanese">>
               ELSE /\ stages = pre \o <<"WesternEuropean", "Cyrillic", "Japanese",
                                         "errorsIfUtf8">>
                    /\ result.Script = "None" /\ result.IsBinary = FALSE
                    /\ UTF8CheckOutcome

\* the first 16 KiB are plain 'A's, the bytes after them are not UTF-8
C10_Witness ==
    /\ detected /\ Len(data) > 16384 + 1
    /\ data[16384 + 1] = \hE9
    /\ scriptHint = "Cyrillic" /\ jaCode = "Unknown"
    /\ result.Encoding = "us-ascii" /\ result.Source = "DefaultEncoding"


(***************************************************************************)
(* C11.  As claimed: the Western European scanner is inconclusive exactly  *)
(* when its sample holds no byte above 0x79; a byte above 0x79 at any      *)
(* position gives a non-empty guess, iso-8859-15 unless a UTF-8 lead and   *)
(* continuation pair or a byte in the Windows-1252 range decides first.    *)
(* Stated for the calls of EncodingDetector in which the scanner ran, on   *)
(* buffers it sees whole.                                                  *)
(***************************************************************************)
HighAt(s, i) == s[i] > \h79

UTF8PairAt(s, i) ==
    /\ i < Len(s)
    /\ s[i] >= \hC2 /\ s[i] <= \hEF
    /\ s[i + 1] >= \h80 /\ s[i + 1] <= \hBF

CP1252At(s, i) == s[i] > \h79 /\ s[i] <= \h9F

C11_Original ==
    (detected /\ InStages("WesternEuropean") /\ Len(data) < cyrillicLimit)
        => LET s == First16KiB
               we == automaticDetectionForWesternEuropean(s)
               high == \E i \in 1..Len(s) : HighAt(s, i)
               decided == \E i \in 1..Len(s) : UTF8PairAt(s, i) \/ CP1252At(s, i)
           IN  /\ (we = "") <=> ~high
               /\ high => we \in {"iso-8859-15", "UTF-8", "cp1252"}
               /\ (high /\ ~decided) => we = "iso-8859-15"

====
